---- MODULE Spec2Model ----
(***************************************************************************)
(* Model of the walkers map core:                                          *)
(*   - the tile download scheduler   (walkers/src/download.rs)             *)
(*   - the Center state machine      (src/center.rs)                       *)
(*   - the Global and Local projectors (src/projector.rs)                  *)
(* Each subsystem has its own specification; the variables of the other    *)
(* subsystems stay at their initial value.                                 *)
(***************************************************************************)
EXTENDS Integers, Sequences, FiniteSets, TLC

VARIABLES
    \* ---- download.rs ----
    request_queue,      \* buffer of the request channel (request_rx), FIFO of TileId
    request_tx_alive,   \* TRUE while a sender of the request channel exists
    tile_queue,         \* buffer of the result channel (tile_tx), FIFO of (TileId, Texture)
    tile_rx_alive,      \* TRUE while the receiver of the result channel exists
    downloads,          \* the `downloads` local of download_continuously_impl
    pc,                 \* "running": in the loop; "terminated": download_continuously returned
    repaints,           \* number of egui_ctx.request_repaint() calls
    warn_logs,          \* number of log::warn! lines (download_complete)
    error_logs,         \* number of log::error! lines (download_continuously)
    requests_sent,      \* history: number of TileIds the producer has sent
    taken,              \* history: bag of TileIds taken from the request channel
    started,            \* history: bag of TileIds for which download_and_decode was called
    delivered,          \* history: bag of TileIds sent on the result channel
    completions,        \* history: number of fetches select_all has resolved
    \* ---- center.rs ----
    center,             \* the Center value of one map view
    last_call,          \* the last Center operation called and what it returned
    gesture,            \* phase of the pointer gesture fed to recalculate_drag
    \* ---- projector.rs ----
    projector,          \* the Projector value: strategy, memory, my_position, clip_rect
    projection          \* the last Projector operation called, its arguments and result

sched_vars == <<request_queue, request_tx_alive, tile_queue, tile_rx_alive, downloads,
                pc, repaints, warn_logs, error_logs, requests_sent, taken, started,
                delivered, completions>>
center_vars == <<center, last_call, gesture>>
projector_vars == <<projector, projection>>
vars == <<sched_vars, center_vars, projector_vars>>

----------------------------------------------------------------------------
(* Bounds of the model *)

\* Largest absolute value of a coordinate of a position or of a pixel offset.
MaxCoord == 2
\* Largest absolute value of the inertia amount the per-frame driver sets.
MaxAmount == 2
\* Total number of requests the producer sends in one run.
MaxRequests == 7
\* Buffer of the result channel: a send waits while this many pairs are queued.
TileQueueCap == 1
\* Positions of the projectors lie on a grid of 2^PosBits steps across the map.
PosBits == 2
\* Largest zoom level asked of the projectors.
MaxZoom == 2
\* Largest k of the source tile sizes 256 * 2^k given to tile_id.
MaxSizeExp == 1

----------------------------------------------------------------------------
(* Values *)

\* TileId { x, y, zoom }: the tiles the producer asks for, in turn
TileWalk == << [x |-> 1, y |-> 2, zoom |-> 3], [x |-> 0, y |-> 0, zoom |-> 0] >>
TileIds == { TileWalk[k] : k \in 1..Len(TileWalk) }

\* The n-th TileId the producer sends: the walk is repeated, so that the same
\* TileId is requested again and different TileIds are in flight together.
RequestedTile(n) == TileWalk[((n - 1) % Len(TileWalk)) + 1]

\* enum Error { HttpMiddleware, Http, Image }
ErrorClasses == {"HttpMiddleware", "Http", "Image"}

\* Outcome of download_and_decode_impl: Ok(texture) or Err(class)
Outcomes == {"Ok"} \cup ErrorClasses

\* Result<Texture, Error>
Ok(texture) == [tag |-> "Ok", val |-> texture]
Err(e) == [tag |-> "Err", val |-> e]

\* source.tile_url(request)
TileUrl(tile_id) == [url_of |-> tile_id]

\* Texture::new(&image, egui_ctx) of the bytes served at url
TextureOf(url) == [image_at |-> url]

\* Bags as functions TileId -> count, for the history variables
EmptyBag == <<>>
BagCount(b, e) == IF e \in DOMAIN b THEN b[e] ELSE 0
BagAdd(b, e) == IF e \in DOMAIN b THEN [b EXCEPT ![e] = @ + 1] ELSE b @@ (e :> 1)
BagSize(b) ==
    LET RECURSIVE Sum(_)
        Sum(S) == IF S = {} THEN 0
                  ELSE LET e == CHOOSE e \in S : TRUE IN b[e] + Sum(S \ {e})
    IN Sum(DOMAIN b)

----------------------------------------------------------------------------
(* download.rs: pure parts *)

\* download_and_decode(client, tile_id, url, egui_ctx): the future created by the
\* call.  It captures tile_id and url; `ready` tells that its fetch has finished,
\* so that the next poll resolves it (see FetchCompletes).
DownloadAndDecode(tile_id, url) ==
    [tile_id |-> tile_id, url |-> url, ready |-> FALSE]

\* download_and_decode_impl: the Result the fetch of url ends with, for each way
\* the network and the decoder can answer.
DownloadAndDecodeImpl(url, outcome) ==
    IF outcome = "Ok" THEN Ok(TextureOf(url)) ELSE Err(outcome)

\* Variant of Resolve that reports the tile one zoom level up
ResolveOtherZoom(fut, outcome) ==
    [tile_id |-> [fut.tile_id EXCEPT !.zoom = @ + 1],
     result  |-> DownloadAndDecodeImpl(fut.url, outcome)]

\* The Download a resolved future yields: the tile_id it was created with and
\* the result of download_and_decode_impl.
Resolve(fut, outcome) ==
    [tile_id |-> fut.tile_id, result |-> DownloadAndDecodeImpl(fut.url, outcome)]

\* Downloads::None
DownloadsNone == [mode |-> "None", dls |-> <<>>]

\* The ceiling tested in `ongoing_downloads.len() < 6`
MaxConcurrent == 6

\* Variant of AfterPush that never saturates: the loop keeps racing the
\* request channel however many downloads are in flight
AfterPushNeverSaturates(ongoing_downloads) ==
    [mode |-> "Ongoing", dls |-> ongoing_downloads]

\* Variant of AfterPush with the ceiling compared by <= instead of <
AfterPushOffByOne(ongoing_downloads) ==
    IF Len(ongoing_downloads) <= MaxConcurrent
    THEN [mode |-> "Ongoing", dls |-> ongoing_downloads]
    ELSE [mode |-> "OngoingSaturated", dls |-> ongoing_downloads]

\* Either::Left arm after the push: Ongoing below the ceiling, else OngoingSaturated
AfterPush(ongoing_downloads) ==
    IF Len(ongoing_downloads) < MaxConcurrent
    THEN [mode |-> "Ongoing", dls |-> ongoing_downloads]
    ELSE [mode |-> "OngoingSaturated", dls |-> ongoing_downloads]

\* Variant of AfterCompleteOngoing that stays in Ongoing when nothing is left
AfterCompleteKeepsOngoing(rest) == [mode |-> "Ongoing", dls |-> rest]

\* Either::Right arm after the completion: None when nothing is left, else Ongoing
AfterCompleteOngoing(rest) ==
    IF rest = <<>> THEN DownloadsNone ELSE [mode |-> "Ongoing", dls |-> rest]

\* Variant of AfterCompleteSaturated that stays in OngoingSaturated
AfterCompleteStaysSaturated(rest) == [mode |-> "OngoingSaturated", dls |-> rest]

\* OngoingSaturated arm after the completion
AfterCompleteSaturated(rest) == [mode |-> "Ongoing", dls |-> rest]

\* select_all polls the futures in order and resolves with the first ready one
ReadyIndexes(dls) == { i \in 1..Len(dls) : dls[i].ready }
FirstReady(dls) == CHOOSE i \in ReadyIndexes(dls) : \A j \in ReadyIndexes(dls) : i <= j

\* Variant of SwapRemove that drops the last future and keeps the resolved one
SwapRemoveTruncates(dls, i) == SubSeq(dls, 1, Len(dls) - 1)

\* select_all returns the remaining futures with the resolved one swap-removed:
\* the last future takes the place of the resolved one.
SwapRemove(dls, i) ==
    LET n == Len(dls) IN
    [k \in 1..(n - 1) |-> IF k = i THEN dls[n] ELSE dls[k]]

\* request_rx.next() is ready: a TileId is buffered, or every sender is gone
RequestReady == request_queue # <<>> \/ ~request_tx_alive

\* tile_tx.send(..) can complete: room in the buffer, or the receiver is gone
SendReady == Len(tile_queue) < TileQueueCap \/ ~tile_rx_alive

----------------------------------------------------------------------------
(* download.rs: download_complete *)

\* Variant of DownloadComplete in which a failed fetch is returned as Err(())
DownloadCompleteFatal(tile_id, result) ==
    IF result.tag = "Ok"
    THEN IF tile_rx_alive
         THEN [ret        |-> "Ok",
               tile_queue |-> Append(tile_queue,
                                     [tile_id |-> tile_id, texture |-> result.val]),
               delivered  |-> BagAdd(delivered, tile_id),
               repaints   |-> repaints + 1,
               warn_logs  |-> warn_logs]
         ELSE [ret        |-> "Err",
               tile_queue |-> tile_queue,
               delivered  |-> delivered,
               repaints   |-> repaints,
               warn_logs  |-> warn_logs]
    ELSE [ret        |-> "Err",
          tile_queue |-> tile_queue,
          delivered  |-> delivered,
          repaints   |-> repaints,
          warn_logs  |-> warn_logs + 1]

\* Variant of DownloadComplete in which the error of the send is discarded
DownloadCompleteIgnoresSend(tile_id, result) ==
    IF result.tag = "Ok"
    THEN [ret        |-> "Ok",
          tile_queue |-> IF tile_rx_alive
                         THEN Append(tile_queue,
                                     [tile_id |-> tile_id, texture |-> result.val])
                         ELSE tile_queue,
          delivered  |-> IF tile_rx_alive THEN BagAdd(delivered, tile_id) ELSE delivered,
          repaints   |-> repaints + 1,
          warn_logs  |-> warn_logs]
    ELSE [ret        |-> "Ok",
          tile_queue |-> tile_queue,
          delivered  |-> delivered,
          repaints   |-> repaints,
          warn_logs  |-> warn_logs + 1]

\* Variant of DownloadComplete in which the repaint follows the match, so that
\* it is requested for a failed fetch too
DownloadCompleteRepaintsAlways(tile_id, result) ==
    IF result.tag = "Ok"
    THEN IF tile_rx_alive
         THEN [ret        |-> "Ok",
               tile_queue |-> Append(tile_queue,
                                     [tile_id |-> tile_id, texture |-> result.val]),
               delivered  |-> BagAdd(delivered, tile_id),
               repaints   |-> repaints + 1,
               warn_logs  |-> warn_logs]
         ELSE [ret        |-> "Err",
               tile_queue |-> tile_queue,
               delivered  |-> delivered,
               repaints   |-> repaints,
               warn_logs  |-> warn_logs]
    ELSE [ret        |-> "Ok",
          tile_queue |-> tile_queue,
          delivered  |-> delivered,
          repaints   |-> repaints + 1,
          warn_logs  |-> warn_logs + 1]

\* download_complete(tile_tx, egui_ctx, tile_id, result), as the effects it has:
\*   Ok(tile): send (tile_id, tile); a failed send returns Err(()) before the
\*             repaint; a successful one is followed by request_repaint();
\*   Err(e):   one log::warn! line, nothing sent, Ok(()) returned.
DownloadComplete(tile_id, result) ==
    IF result.tag = "Ok"
    THEN IF tile_rx_alive
         THEN [ret        |-> "Ok",
               tile_queue |-> Append(tile_queue,
                                     [tile_id |-> tile_id, texture |-> result.val]),
               delivered  |-> BagAdd(delivered, tile_id),
               repaints   |-> repaints + 1,
               warn_logs  |-> warn_logs]
         ELSE [ret        |-> "Err",
               tile_queue |-> tile_queue,
               delivered  |-> delivered,
               repaints   |-> repaints,
               warn_logs  |-> warn_logs]
    ELSE [ret        |-> "Ok",
          tile_queue |-> tile_queue,
          delivered  |-> delivered,
          repaints   |-> repaints,
          warn_logs  |-> warn_logs + 1]

\* The `downloads` local once download_continuously_impl has returned: every
\* future it held is dropped with it.
DownloadsDropped == [mode |-> "Dropped", dls |-> <<>>]

\* download_continuously: the loop ended with Err(()), logged once.
ReturnErr ==
    /\ pc' = "terminated"
    /\ error_logs' = error_logs + 1
    /\ downloads' = DownloadsDropped

----------------------------------------------------------------------------
(* download.rs: one iteration of the loop of download_continuously_impl *)

\* request.await yields Some(tile_id): the head of the request channel is taken
\* and one fetch is created for it.
TakeRequest ==
    /\ request_queue # <<>>
    /\ request_queue' = Tail(request_queue)
    /\ taken' = BagAdd(taken, Head(request_queue))
    /\ started' = BagAdd(started, Head(request_queue))

NewDownload == DownloadAndDecode(Head(request_queue), TileUrl(Head(request_queue)))

\* Downloads::None, request.await = Some(request)
NoneAdmit ==
    /\ pc = "running"
    /\ downloads.mode = "None"
    /\ TakeRequest
    /\ downloads' = [mode |-> "Ongoing", dls |-> <<NewDownload>>]
    /\ UNCHANGED <<request_tx_alive, tile_queue, tile_rx_alive, pc, repaints, warn_logs,
                   error_logs, requests_sent, delivered, completions, center_vars, projector_vars>>

\* Downloads::None, request.await = None: ok_or(())? returns
NoneClosed ==
    /\ pc = "running"
    /\ downloads.mode = "None"
    /\ request_queue = <<>>
    /\ ~request_tx_alive
    /\ ReturnErr
    /\ UNCHANGED <<request_queue, request_tx_alive, tile_queue, tile_rx_alive, repaints,
                   warn_logs, requests_sent, taken, started, delivered, completions, center_vars, projector_vars>>

\* Downloads::Ongoing, select resolves Left with Some(request): select polls the
\* request first, so a buffered request wins over any completed download.
OngoingAdmit ==
    /\ pc = "running"
    /\ downloads.mode = "Ongoing"
    /\ TakeRequest
    /\ downloads' = AfterPush(Append(downloads.dls, NewDownload))
    /\ UNCHANGED <<request_tx_alive, tile_queue, tile_rx_alive, pc, repaints, warn_logs,
                   error_logs, requests_sent, delivered, completions, center_vars, projector_vars>>

\* Variant of OngoingClosed that goes round the loop instead of returning
OngoingClosedSpins ==
    /\ pc = "running"
    /\ downloads.mode = "Ongoing"
    /\ request_queue = <<>>
    /\ ~request_tx_alive
    /\ UNCHANGED vars

\* Downloads::Ongoing, select resolves Left with None: request.ok_or(())? returns
OngoingClosed ==
    /\ pc = "running"
    /\ downloads.mode = "Ongoing"
    /\ request_queue = <<>>
    /\ ~request_tx_alive
    /\ ReturnErr
    /\ UNCHANGED <<request_queue, request_tx_alive, tile_queue, tile_rx_alive, repaints,
                   warn_logs, requests_sent, taken, started, delivered, completions, center_vars, projector_vars>>

\* The completion shared by the Either::Right arm and the OngoingSaturated arm:
\* select_all resolves with the first ready download (with the outcome its
\* fetch had), download_complete runs on it, and `?` returns on a failed send.
\* next_downloads is what the arm evaluates to otherwise.
Complete(outcome, next_downloads) ==
    /\ ReadyIndexes(downloads.dls) # {}
    /\ LET i      == FirstReady(downloads.dls)
           result == Resolve(downloads.dls[i], outcome)
           rest   == SwapRemove(downloads.dls, i)
           r      == DownloadComplete(result.tile_id, result.result)
       IN /\ outcome = "Ok" => SendReady
          /\ completions' = completions + 1
          /\ tile_queue' = r.tile_queue
          /\ delivered' = r.delivered
          /\ repaints' = r.repaints
          /\ warn_logs' = r.warn_logs
          /\ IF r.ret = "Ok"
             THEN /\ downloads' = next_downloads[rest]
                  /\ UNCHANGED <<pc, error_logs>>
             ELSE ReturnErr

\* Variant of OngoingComplete in which a closed request channel does not win
\* the race: a completed download is processed before the closure is seen
OngoingCompleteBeforeClosure(outcome) ==
    /\ pc = "running"
    /\ downloads.mode = "Ongoing"
    /\ request_queue = <<>>
    /\ Complete(outcome, [rest \in {SwapRemove(downloads.dls, FirstReady(downloads.dls))}
                    |-> AfterCompleteOngoing(rest)])
    /\ UNCHANGED <<request_queue, request_tx_alive, tile_rx_alive, requests_sent, taken,
                   started, center_vars, projector_vars>>

\* Downloads::Ongoing, select resolves Right: the request side is pending
OngoingComplete(outcome) ==
    /\ pc = "running"
    /\ downloads.mode = "Ongoing"
    /\ ~RequestReady
    /\ Complete(outcome, [rest \in {SwapRemove(downloads.dls, FirstReady(downloads.dls))}
                    |-> AfterCompleteOngoing(rest)])
    /\ UNCHANGED <<request_queue, request_tx_alive, tile_rx_alive, requests_sent, taken,
                   started, center_vars, projector_vars>>

\* Variant of SaturatedComplete that races the request channel as the Ongoing
\* arm does
SaturatedRace(outcome) ==
    /\ pc = "running"
    /\ downloads.mode = "OngoingSaturated"
    /\ IF RequestReady /\ request_queue # <<>>
       THEN /\ TakeRequest
            /\ downloads' = [mode |-> "OngoingSaturated",
                             dls |-> Append(downloads.dls, NewDownload)]
            /\ UNCHANGED <<request_tx_alive, tile_queue, tile_rx_alive, pc, repaints,
                           warn_logs, error_logs, requests_sent, delivered, completions,
                           center_vars, projector_vars>>
       ELSE /\ Complete(outcome,
                        [rest \in {SwapRemove(downloads.dls, FirstReady(downloads.dls))}
                            |-> AfterCompleteSaturated(rest)])
            /\ UNCHANGED <<request_queue, request_tx_alive, tile_rx_alive, requests_sent,
                           taken, started, center_vars, projector_vars>>

\* Downloads::OngoingSaturated: only completions are awaited
SaturatedComplete(outcome) ==
    /\ pc = "running"
    /\ downloads.mode = "OngoingSaturated"
    /\ Complete(outcome, [rest \in {SwapRemove(downloads.dls, FirstReady(downloads.dls))}
                    |-> AfterCompleteSaturated(rest)])
    /\ UNCHANGED <<request_queue, request_tx_alive, tile_rx_alive, requests_sent, taken,
                   started, center_vars, projector_vars>>

SchedulerStep ==
    \/ NoneAdmit
    \/ NoneClosed
    \/ OngoingAdmit
    \/ OngoingClosed
    \/ \E outcome \in Outcomes : OngoingComplete(outcome)
    \/ \E outcome \in Outcomes : SaturatedComplete(outcome)

----------------------------------------------------------------------------
(* The scheduler's environment *)

\* The producer sends a TileId on the request channel.
SendRequest ==
    /\ pc = "running"
    /\ request_tx_alive
    /\ requests_sent < MaxRequests
    /\ request_queue' = Append(request_queue, RequestedTile(requests_sent + 1))
    /\ requests_sent' = requests_sent + 1
    /\ UNCHANGED <<request_tx_alive, tile_queue, tile_rx_alive, downloads, pc, repaints,
                   warn_logs, error_logs, taken, started, delivered, completions, center_vars, projector_vars>>

\* The last sender of the request channel is dropped.
DropRequestTx ==
    /\ request_tx_alive
    /\ request_tx_alive' = FALSE
    /\ UNCHANGED <<request_queue, tile_queue, tile_rx_alive, downloads, pc, repaints,
                   warn_logs, error_logs, requests_sent, taken, started, delivered, completions,
                   center_vars, projector_vars>>

\* The fetch of the i-th in-flight future finishes: the future is ready to resolve.
FetchCompletes(i) ==
    /\ pc = "running"
    /\ i \in 1..Len(downloads.dls)
    /\ ~downloads.dls[i].ready
    /\ downloads' = [downloads EXCEPT !.dls[i].ready = TRUE]
    /\ UNCHANGED <<request_queue, request_tx_alive, tile_queue, tile_rx_alive, pc, repaints,
                   warn_logs, error_logs, requests_sent, taken, started, delivered, completions,
                   center_vars, projector_vars>>

\* The consumer takes the oldest pair off the result channel.
ReceiveTile ==
    /\ tile_rx_alive
    /\ tile_queue # <<>>
    /\ tile_queue' = Tail(tile_queue)
    /\ UNCHANGED <<request_queue, request_tx_alive, tile_rx_alive, downloads, pc, repaints,
                   warn_logs, error_logs, requests_sent, taken, started, delivered, completions,
                   center_vars, projector_vars>>

\* The receiver of the result channel is dropped, and its buffer with it.
DropTileRx ==
    /\ tile_rx_alive
    /\ tile_rx_alive' = FALSE
    /\ tile_queue' = <<>>
    /\ UNCHANGED <<request_queue, request_tx_alive, downloads, pc, repaints, warn_logs,
                   error_logs, requests_sent, taken, started, delivered, completions, center_vars, projector_vars>>


----------------------------------------------------------------------------
(* center.rs: values *)

\* egui::Vec2 and Pixels: pairs of numbers, with the operations the code uses
Vec2s == (0 - MaxCoord .. MaxCoord) \X (0 - MaxCoord .. MaxCoord)
ZeroVec == <<0, 0>>
VAdd(a, b) == <<a[1] + b[1], a[2] + b[2]>>
VSub(a, b) == <<a[1] - b[1], a[2] - b[2]>>
VMul(a, k) == <<a[1] * k, a[2] * k>>
InRange(v) == v \in Vec2s

\* Drag deltas of one frame (response.drag_delta())
Deltas == { <<0, 0>>, <<1, 0>>, <<0, 1>>, <<0 - 1, 0 - 1>> }

\* Live positions fed as my_position
MyPositions == { <<0, 0>>, <<1, 1>> }

\* Values the per-frame driver may leave in Inertia.amount
Amounts == (0 - MaxAmount) .. MaxAmount

\* AdjustedPosition::new(position, offset)
AdjustedPosition(position, offset) == [position |-> position, offset |-> offset]

\* AdjustedPosition::shift(offset): the pixel offset is accumulated, the base
\* position is kept.
PosShift(pos, offset) == AdjustedPosition(pos.position, VAdd(pos.offset, offset))

\* bitmap_project / bitmap_unproject of the local projector at one unit per
\* point: scale and flip y.
BitmapProject(position) == <<position[1], 0 - position[2]>>
BitmapUnproject(p) == <<p[1], 0 - p[2]>>

\* ProjectorTrait::shift(pos, offset)
ProjectorShift(position, offset) == BitmapUnproject(VSub(BitmapProject(position), offset))

\* projector.zero_offset(pos): the offset is folded into the base position.
ProjectorZeroOffset(pos) ==
    AdjustedPosition(ProjectorShift(pos.position, pos.offset), ZeroVec)

\* enum Center
CenterMyPosition == [mode |-> "MyPosition"]
CenterExact(pos) == [mode |-> "Exact", pos |-> pos]
CenterMoving(pos, direction) == [mode |-> "Moving", pos |-> pos, direction |-> direction]
CenterInertia(pos, direction, amount) ==
    [mode |-> "Inertia", pos |-> pos, direction |-> direction, amount |-> amount]

\* The amount Inertia starts with
InitialAmount == 1

----------------------------------------------------------------------------
(* center.rs: operations, as functions of the Center value *)

\* Center::adjusted_position: "None" in MyPosition, the held pos otherwise
HasAdjustedPosition(c) == c.mode # "MyPosition"

\* Variant of RecalculateDragCenter in which the end of the drag pins the map
\* at once, without the glide
RecalculateDragNoInertia(c, dragged, drag_stopped, drag_delta, my_position) ==
    IF dragged
    THEN CenterMoving(IF HasAdjustedPosition(c) THEN c.pos
                      ELSE AdjustedPosition(my_position, ZeroVec),
                      drag_delta)
    ELSE IF drag_stopped
    THEN IF c.mode = "Moving"
         THEN CenterExact(c.pos)
         ELSE c
    ELSE c

\* Variant of RecalculateDragCenter in which a drag always starts from
\* my_position, dropping the position held so far
RecalculateDragFromMyPosition(c, dragged, drag_stopped, drag_delta, my_position) ==
    IF dragged
    THEN CenterMoving(AdjustedPosition(my_position, ZeroVec), drag_delta)
    ELSE IF drag_stopped
    THEN IF c.mode = "Moving"
         THEN CenterInertia(c.pos, c.direction, InitialAmount)
         ELSE c
    ELSE c

\* Variant of RecalculateDragCenter in which a stopped drag also restarts a
\* glide that is under way
RecalculateDragRestartsGlide(c, dragged, drag_stopped, drag_delta, my_position) ==
    IF dragged
    THEN CenterMoving(IF HasAdjustedPosition(c) THEN c.pos
                      ELSE AdjustedPosition(my_position, ZeroVec),
                      drag_delta)
    ELSE IF drag_stopped
    THEN IF c.mode \in {"Moving", "Inertia"}
         THEN CenterInertia(c.pos, c.direction, InitialAmount)
         ELSE c
    ELSE c

\* Center::recalculate_drag: the new Center value
RecalculateDragCenter(c, dragged, drag_stopped, drag_delta, my_position) ==
    IF dragged
    THEN CenterMoving(IF HasAdjustedPosition(c) THEN c.pos
                      ELSE AdjustedPosition(my_position, ZeroVec),
                      drag_delta)
    ELSE IF drag_stopped
    THEN IF c.mode = "Moving"
         THEN CenterInertia(c.pos, c.direction, InitialAmount)
         ELSE c
    ELSE c

\* Center::recalculate_drag: the value returned
RecalculateDragRet(dragged, drag_stopped) == dragged \/ drag_stopped

\* Variant of UpdateMovementCenter in which a finished glide goes back to
\* following my_position
UpdateMovementReattaches(c) ==
    CASE c.mode = "Moving" ->
            CenterMoving(PosShift(c.pos, c.direction), c.direction)
      [] c.mode = "Inertia" ->
            IF c.amount <= 0
            THEN CenterMyPosition
            ELSE CenterInertia(PosShift(c.pos, VMul(c.direction, c.amount)),
                               c.direction, c.amount)
      [] OTHER -> c

\* Variant of UpdateMovementCenter in which the tick itself lowers the amount
UpdateMovementDecays(c) ==
    CASE c.mode = "Moving" ->
            CenterMoving(PosShift(c.pos, c.direction), c.direction)
      [] c.mode = "Inertia" ->
            IF c.amount <= 0
            THEN CenterExact(c.pos)
            ELSE CenterInertia(PosShift(c.pos, VMul(c.direction, c.amount)),
                               c.direction, c.amount - 1)
      [] OTHER -> c

\* Center::update_movement: the new Center value
UpdateMovementCenter(c) ==
    CASE c.mode = "Moving" ->
            CenterMoving(PosShift(c.pos, c.direction), c.direction)
      [] c.mode = "Inertia" ->
            IF c.amount <= 0
            THEN CenterExact(c.pos)
            ELSE CenterInertia(PosShift(c.pos, VMul(c.direction, c.amount)),
                               c.direction, c.amount)
      [] OTHER -> c

\* Variant of UpdateMovementRet that reports a movement on every tick
UpdateMovementRetAlways(c) == TRUE

\* Center::update_movement: the value returned
UpdateMovementRet(c) == c.mode \in {"Moving", "Inertia"}

\* Center::zero_offset
ZeroOffsetCenter(c) ==
    CASE c.mode = "MyPosition" -> CenterMyPosition
      [] c.mode = "Exact" -> CenterExact(ProjectorZeroOffset(c.pos))
      [] c.mode = "Moving" -> CenterMoving(ProjectorZeroOffset(c.pos), c.direction)
      [] c.mode = "Inertia" ->
            CenterInertia(ProjectorZeroOffset(c.pos), c.direction, c.amount)

\* Variant of ShiftCenter in which shifting a glide pins the map
ShiftCenterPinsInertia(c, offset) ==
    CASE c.mode = "MyPosition" -> CenterMyPosition
      [] c.mode = "Exact" -> CenterExact(PosShift(c.pos, offset))
      [] c.mode = "Moving" -> CenterMoving(PosShift(c.pos, offset), c.direction)
      [] c.mode = "Inertia" -> CenterExact(PosShift(c.pos, offset))

\* Center::shift
ShiftCenter(c, offset) ==
    CASE c.mode = "MyPosition" -> CenterMyPosition
      [] c.mode = "Exact" -> CenterExact(PosShift(c.pos, offset))
      [] c.mode = "Moving" -> CenterMoving(PosShift(c.pos, offset), c.direction)
      [] c.mode = "Inertia" -> CenterInertia(PosShift(c.pos, offset), c.direction, c.amount)

\* The coordinates of a Center value stay within the model's range
CenterInRange(c) ==
    HasAdjustedPosition(c) => InRange(c.pos.position) /\ InRange(c.pos.offset)

----------------------------------------------------------------------------
(* center.rs: the calls made on the Center of one map view *)

Call(op, ret) == [op |-> op, ret |-> ret]

\* recalculate_drag(response, my_position) with the response of one frame
RecalculateDrag(dragged, drag_stopped, drag_delta, my_position) ==
    /\ center' = RecalculateDragCenter(center, dragged, drag_stopped, drag_delta,
                                       my_position)
    /\ last_call' = Call("recalculate_drag", RecalculateDragRet(dragged, drag_stopped))

\* update_movement()
UpdateMovement ==
    /\ CenterInRange(UpdateMovementCenter(center))
    /\ center' = UpdateMovementCenter(center)
    /\ last_call' = Call("update_movement", UpdateMovementRet(center))
    /\ UNCHANGED <<gesture, sched_vars, projector_vars>>

\* center = center.zero_offset(projector)
ZeroOffset ==
    /\ CenterInRange(ZeroOffsetCenter(center))
    /\ center' = ZeroOffsetCenter(center)
    /\ last_call' = Call("zero_offset", TRUE)
    /\ UNCHANGED <<gesture, sched_vars, projector_vars>>

\* center = center.shift(offset)
Shift(offset) ==
    /\ CenterInRange(ShiftCenter(center, offset))
    /\ center' = ShiftCenter(center, offset)
    /\ last_call' = Call("shift", TRUE)
    /\ UNCHANGED <<gesture, sched_vars, projector_vars>>

\* The per-frame driver lowers (or sets) the amount of an Inertia between ticks.
DecayAmount(amount) ==
    /\ center.mode = "Inertia"
    /\ amount # center.amount
    /\ center' = [center EXCEPT !.amount = amount]
    /\ last_call' = Call("decay", TRUE)
    /\ UNCHANGED <<gesture, sched_vars, projector_vars>>

\* A frame with any response: the flags and the delta are free.
AnyFrame ==
    /\ \E dragged \in BOOLEAN, drag_stopped \in BOOLEAN, drag_delta \in Deltas,
          my_position \in MyPositions :
          RecalculateDrag(dragged, drag_stopped, drag_delta, my_position)
    /\ UNCHANGED <<gesture, sched_vars, projector_vars>>

\* The frames of one drag-then-release gesture: no pointer input before it,
\* one or more frames dragging, the frame in which the drag stops, and no
\* pointer input after it.
IdleFrame ==
    /\ gesture \in {"before", "released"}
    /\ \E drag_delta \in Deltas, my_position \in MyPositions :
          RecalculateDrag(FALSE, FALSE, drag_delta, my_position)
    /\ UNCHANGED <<gesture, sched_vars, projector_vars>>

DragFrame ==
    /\ gesture \in {"before", "dragging"}
    /\ \E drag_delta \in Deltas, my_position \in MyPositions :
          RecalculateDrag(TRUE, FALSE, drag_delta, my_position)
    /\ gesture' = "dragging"
    /\ UNCHANGED <<sched_vars, projector_vars>>

ReleaseFrame ==
    /\ gesture = "dragging"
    /\ \E drag_delta \in Deltas, my_position \in MyPositions :
          RecalculateDrag(FALSE, TRUE, drag_delta, my_position)
    /\ gesture' = "released"
    /\ UNCHANGED <<sched_vars, projector_vars>>

CenterInit ==
    /\ center = CenterMyPosition
    /\ last_call = Call("none", FALSE)
    /\ gesture = "before"

----------------------------------------------------------------------------
(* projector.rs: numbers *)

RECURSIVE Pow2(_)
Pow2(n) == IF n <= 0 THEN 1 ELSE 2 * Pow2(n - 1)

Abs(v) == IF v < 0 THEN 0 - v ELSE v

\* crate::TILE_SIZE
TileSize == 256

\* Significant bits of an f32 (egui::Pos2 and egui::Vec2 hold f32)
MantissaBits == 24

\* Pixel coordinates are counted in steps of 2^-16 pixel, so that an f32 pixel
\* value with a fractional part is an integer of the model.
PixelUnit == Pow2(16)

\* Distance between neighbouring f32 values at magnitude m (m >= 0), in steps
RECURSIVE Ulp(_)
Ulp(m) == IF m < Pow2(MantissaBits) THEN 1 ELSE 2 * Ulp(m \div 2)

\* The f32 nearest to v, ties to even: the result of an f32 operation whose
\* exact result is v, and of `as f32`
RoundF32(v) ==
    LET m == Abs(v)
        q == Ulp(m)
        r == m % q
        lo == m - r
        up == (2 * r > q) \/ (2 * r = q /\ (lo \div q) % 2 = 1)
        n == IF up THEN lo + q ELSE lo
    IN IF v < 0 THEN 0 - n ELSE n

\* Pos2 - Pos2, Pos2 - Vec2 and Pos2 + Vec2 of egui, in f32
F32Sub(a, b) == <<RoundF32(a[1] - b[1]), RoundF32(a[2] - b[2])>>
F32Add(a, b) == <<RoundF32(a[1] + b[1]), RoundF32(a[2] + b[2])>>

\* `v as u32` of a float: saturating at 0 (the upper end is out of the
\* model's range)
AsU32(v) == IF v < 0 THEN 0 ELSE v

\* Option<TileId> and a panic of the call
None == [tag |-> "None"]
Some(v) == [tag |-> "Some", val |-> v]
Panic == [tag |-> "Panic"]

----------------------------------------------------------------------------
(* projector.rs: positions *)

\* Steps across the normalized Mercator square, and half of them
NormDen == Pow2(PosBits)
HalfDen == NormDen \div 2

\* Position of the global map as <<lon, lat>>: lon counts steps of
\* 360/NormDen degrees, so lon = HalfDen is 180 degrees; lat is given by its
\* Mercator ordinate asinh(tan(lat)) in steps of 2*pi/NormDen, so lat = HalfDen
\* is the Mercator limit 85.0511 degrees and larger steps lie beyond it.
Longitudes == (0 - HalfDen) .. HalfDen
Latitudes == (0 - HalfDen - 1) .. (HalfDen + 1)
GlobalPositions == Longitudes \X Latitudes

\* Positions used as map center and as my_position, inside the square.
\* For the local projector <<x, y>> counts steps of units_per_point(0).
AnchorPositions == { <<0, 0>>, <<1, 0 - 1>> }

\* Bitmap and screen pixels handed to the screen transform, in steps of
\* 2^-16 pixel: every value is an f32.
Pixels == { <<0, 0>>, <<1, 3>>, <<100 * PixelUnit, 50 * PixelUnit>>,
            <<Pow2(24) + 2, 0 - 5 * PixelUnit>> }

\* Centers of the viewport rectangles given to set_clip_rect
ClipCenters == { <<400 * PixelUnit, 300 * PixelUnit>>, <<Pow2(24), Pow2(25) + 4>> }

\* Source tile sizes 256, 512, 1024, ...
TileSizes == { TileSize * Pow2(k) : k \in 0..MaxSizeExp }

----------------------------------------------------------------------------
(* projector.rs: the projections, as functions *)

\* GlobalProjector::mercator_normalized: <<x, y>> as numerators over NormDen.
\* x = (1 + lon_rad/pi)/2 and y = (1 - asinh(tan(lat_rad))/pi)/2.
MercatorNormalized(pos) == <<HalfDen + pos[1], HalfDen - pos[2]>>

\* (source_tile_size as f64 / TILE_SIZE as f64).log2() as u8: the logarithm
\* is truncated, and a negative one becomes 0.
RECURSIVE Log2AsU8(_)
Log2AsU8(source_tile_size) ==
    IF source_tile_size < 2 * TileSize THEN 0
    ELSE 1 + Log2AsU8(source_tile_size \div 2)

\* GlobalProjector::tile_id. `zoom -= k` is a u8 subtraction and 2u32.pow(zoom)
\* a u32 power: with overflow checks (debug builds) an overflow panics, without
\* them (release builds) the result wraps.
GlobalTileId(pos, zoom, source_tile_size, overflow_checks) ==
    LET n == MercatorNormalized(pos)
        k == Log2AsU8(source_tile_size)
        sub_overflows == k > zoom
        adjusted == (zoom - k) % 256
        pow_overflows == adjusted >= 32
        number_of_tiles == IF pow_overflows THEN 0 ELSE Pow2(adjusted)
    IN IF overflow_checks /\ (sub_overflows \/ pow_overflows)
       THEN Panic
       ELSE Some([x |-> AsU32((n[1] * number_of_tiles) \div NormDen),
                  y |-> AsU32((n[2] * number_of_tiles) \div NormDen),
                  zoom |-> adjusted])

\* LocalProjector::tile_id
LocalTileId(pos, zoom, source_tile_size) == None

\* Projector::tile_id
TileIdOf(kind, pos, zoom, source_tile_size, overflow_checks) ==
    IF kind = "Global"
    THEN GlobalTileId(pos, zoom, source_tile_size, overflow_checks)
    ELSE LocalTileId(pos, zoom, source_tile_size)

\* total_pixels(zoom), in steps of 2^-16 pixel
TotalPixels(zoom) == Pow2(zoom) * TileSize * PixelUnit

\* GlobalProjector::bitmap_project
GlobalBitmapProject(zoom, position) ==
    LET n == MercatorNormalized(position)
    IN <<RoundF32(n[1] * (TotalPixels(zoom) \div NormDen)),
         RoundF32(n[2] * (TotalPixels(zoom) \div NormDen))>>

\* LocalProjector::units_per_point, as points per position step: a position
\* step is units_per_point(0), and each zoom level doubles the points.
PointsPerStep(zoom) == Pow2(zoom)

\* LocalProjector::bitmap_project: scale and flip y
LocalBitmapProject(zoom, position) ==
    <<RoundF32(position[1] * PointsPerStep(zoom) * PixelUnit),
      RoundF32(0 - (position[2] * PointsPerStep(zoom) * PixelUnit))>>

\* Projector::bitmap_project
BitmapProjectOf(proj, position) ==
    IF proj.kind = "Global"
    THEN GlobalBitmapProject(proj.zoom, position)
    ELSE LocalBitmapProject(proj.zoom, position)

\* egui::Rect::NOTHING and a viewport rectangle, which the projector uses
\* through its center only
RectNothing == [is_nothing |-> TRUE, center |-> <<0, 0>>]
Rect(center_pixel) == [is_nothing |-> FALSE, center |-> center_pixel]

\* {Global,Local}Projector::new
Projector(kind, zoom, center_mode, my_position) ==
    [kind |-> kind, zoom |-> zoom, center_mode |-> center_mode,
     my_position |-> my_position, clip_rect |-> RectNothing]

\* self.memory.center_mode.position().unwrap_or(self.my_position)
Anchor(proj) ==
    IF HasAdjustedPosition(proj.center_mode)
    THEN proj.center_mode.pos.position
    ELSE proj.my_position

\* bitmap_to_screen, the same in both projectors
BitmapToScreen(proj, pos) ==
    LET map_center_projected_position == BitmapProjectOf(proj, Anchor(proj))
    IN F32Add(F32Sub(pos, map_center_projected_position), proj.clip_rect.center)

\* Variant of BitmapFromScreen that always recenters on my_position
BitmapFromScreenOnMyPosition(proj, pos) ==
    LET map_center_projected_position == BitmapProjectOf(proj, proj.my_position)
    IN F32Add(map_center_projected_position, F32Sub(pos, proj.clip_rect.center))

\* bitmap_from_screen, the same in both projectors
BitmapFromScreen(proj, pos) ==
    LET map_center_projected_position == BitmapProjectOf(proj, Anchor(proj))
    IN F32Add(map_center_projected_position, F32Sub(pos, proj.clip_rect.center))

\* ProjectorTrait::project
Project(proj, position) == BitmapToScreen(proj, BitmapProjectOf(proj, position))

----------------------------------------------------------------------------
(* projector.rs: the calls made on one Projector *)

\* Projector::Global(GlobalProjector::new(..)) or Projector::Local(..)
NewProjector(kind, zoom, center_mode, my_position) ==
    /\ projector' = Projector(kind, zoom, center_mode, my_position)
    /\ projection' = [op |-> "new"]
    /\ UNCHANGED <<sched_vars, center_vars>>

\* set_clip_rect(rect)
SetClipRect(center_pixel) ==
    /\ projector' = [projector EXCEPT !.clip_rect = Rect(center_pixel)]
    /\ projection' = [op |-> "set_clip_rect"]
    /\ UNCHANGED <<sched_vars, center_vars>>

\* tile_id(pos, zoom, tile_size), in a build with or without overflow checks
TileIdCall(pos, zoom, source_tile_size, overflow_checks) ==
    /\ projection' = [op |-> "tile_id", pos |-> pos, zoom |-> zoom,
                      source_tile_size |-> source_tile_size,
                      ret |-> TileIdOf(projector.kind, pos, zoom, source_tile_size,
                                       overflow_checks)]
    /\ UNCHANGED <<projector, sched_vars, center_vars>>

\* bitmap_to_screen(pos), once the viewport is set
BitmapToScreenCall(pos) ==
    /\ ~projector.clip_rect.is_nothing
    /\ projection' = [op |-> "bitmap_to_screen", pos |-> pos,
                      ret |-> BitmapToScreen(projector, pos)]
    /\ UNCHANGED <<projector, sched_vars, center_vars>>

\* bitmap_from_screen applied to the screen pixel bitmap_to_screen returned
BitmapFromScreenCall ==
    /\ ~projector.clip_rect.is_nothing
    /\ projection.op = "bitmap_to_screen"
    /\ projection' = [op |-> "bitmap_from_screen", pos |-> projection.ret,
                      ret |-> BitmapFromScreen(projector, projection.ret),
                      screen_of |-> projection.pos]
    /\ UNCHANGED <<projector, sched_vars, center_vars>>

\* project(position), once the viewport is set
ProjectCall(position) ==
    /\ ~projector.clip_rect.is_nothing
    /\ projection' = [op |-> "project", position |-> position,
                      ret |-> Project(projector, position)]
    /\ UNCHANGED <<projector, sched_vars, center_vars>>

\* Center values a projector's memory holds as center_mode
CenterModes ==
    {CenterMyPosition} \cup
    { CenterExact(AdjustedPosition(position, ZeroVec)) : position \in AnchorPositions }

ProjectorInit ==
    /\ projector = Projector("Global", 0, CenterMyPosition, <<0, 0>>)
    /\ projection = [op |-> "new"]

----------------------------------------------------------------------------
(* Specification of the scheduler *)

SchedInit ==
    /\ request_queue = <<>>
    /\ request_tx_alive = TRUE
    /\ tile_queue = <<>>
    /\ tile_rx_alive = TRUE
    /\ downloads = DownloadsNone
    /\ pc = "running"
    /\ repaints = 0
    /\ warn_logs = 0
    /\ error_logs = 0
    /\ requests_sent = 0
    /\ taken = EmptyBag
    /\ started = EmptyBag
    /\ delivered = EmptyBag
    /\ completions = 0

Init == SchedInit /\ CenterInit /\ ProjectorInit

Next ==
    \/ SchedulerStep
    \/ SendRequest
    \/ DropRequestTx
    \/ \E i \in 1..MaxConcurrent : FetchCompletes(i)
    \/ ReceiveTile
    \/ DropTileRx

Spec == Init /\ [][Next]_vars

\* The scheduler with a consumer of the result channel that stays alive.
ConsumerAliveNext ==
    \/ SchedulerStep
    \/ SendRequest
    \/ DropRequestTx
    \/ \E i \in 1..MaxConcurrent : FetchCompletes(i)
    \/ ReceiveTile

\* The executor keeps polling the scheduler's task, and the consumer of the
\* result channel stays alive and keeps draining it.
SchedFairSpec ==
    /\ Init
    /\ [][ConsumerAliveNext]_vars
    /\ WF_vars(SchedulerStep)
    /\ WF_vars(ReceiveTile)

\* As SchedFairSpec, with a tile source whose fetches all finish.
ShutdownFairSpec ==
    /\ SchedFairSpec
    /\ WF_vars(\E i \in 1..MaxConcurrent : FetchCompletes(i))

----------------------------------------------------------------------------
(* Specification of Center under any inputs *)

CenterNext ==
    \/ AnyFrame
    \/ UpdateMovement
    \/ ZeroOffset
    \/ \E offset \in Deltas : Shift(offset)
    \/ \E amount \in Amounts : DecayAmount(amount)

CenterSpec == Init /\ [][CenterNext]_vars

(* Specification of Center along one drag-then-release gesture *)

GestureNext ==
    \/ IdleFrame
    \/ DragFrame
    \/ ReleaseFrame
    \/ UpdateMovement
    \/ ZeroOffset
    \/ \E offset \in Deltas : Shift(offset)
    \/ \E amount \in Amounts : DecayAmount(amount)

GestureSpec == Init /\ [][GestureNext]_vars

----------------------------------------------------------------------------
(* Specification of tile_id under any inputs: tile_id reads nothing of the  *)
(* projector but its strategy                                              *)

TileIdNext ==
    \/ \E kind \in {"Global", "Local"} :
          NewProjector(kind, 0, CenterMyPosition, <<0, 0>>)
    \/ \E pos \in GlobalPositions, zoom \in 0..MaxZoom,
          source_tile_size \in TileSizes, overflow_checks \in BOOLEAN :
          TileIdCall(pos, zoom, source_tile_size, overflow_checks)

TileIdSpec == Init /\ [][TileIdNext]_vars

(* Specification of the screen transform under any inputs *)

ScreenNext ==
    \/ \E kind \in {"Global", "Local"}, zoom \in {0, MaxZoom},
          center_mode \in CenterModes, my_position \in AnchorPositions :
          NewProjector(kind, zoom, center_mode, my_position)
    \/ \E center_pixel \in ClipCenters : SetClipRect(center_pixel)
    \/ \E pos \in Pixels : BitmapToScreenCall(pos)
    \/ BitmapFromScreenCall
    \/ \E position \in AnchorPositions : ProjectCall(position)

ScreenSpec == Init /\ [][ScreenNext]_vars

----------------------------------------------------------------------------
(* Properties of the scheduler *)

IsPrefix(a, b) == Len(a) <= Len(b) /\ SubSeq(b, 1, Len(a)) = a

InFlight == Len(downloads.dls)

\* C1: at most 6 fetch tasks are in flight in every reachable state, and the
\* number of fetches started never exceeds 6 plus the number of completions
\* processed: a 7th fetch is started only after a completion.
C1_ConcurrencyCeiling ==
    /\ InFlight <= 6
    /\ BagSize(started) <= 6 + completions

\* A burst of 7 requests against a source that has not completed anything:
\* 6 in flight, the 7th buffered.
C1_Witness ==
    /\ downloads.mode = "OngoingSaturated"
    /\ InFlight = 6
    /\ completions = 0
    /\ ReadyIndexes(downloads.dls) = {}
    /\ Len(request_queue) >= 1

\* C2: a step taken while the scheduler is Saturated removes nothing from the
\* request queue: the queue before the step is a prefix of the queue after
\* it, and no request is taken.
C2_BackpressureWhileSaturated ==
    [][downloads.mode = "OngoingSaturated"
          => IsPrefix(request_queue, request_queue') /\ taken' = taken]_vars

\* The scheduler has left Saturated by one completion while the request sent
\* during saturation is still buffered.
C2_Witness ==
    /\ pc = "running"
    /\ downloads.mode = "Ongoing"
    /\ InFlight = 5
    /\ completions = 1
    /\ BagSize(started) = 6
    /\ Len(request_queue) >= 1

\* A completion processed in Saturated leaves the loop in Filling with 5 in flight.
C3_CompletionLeavesSaturated ==
    (downloads.mode = "OngoingSaturated" /\ completions' = completions + 1
        /\ pc' = "running")
    => (downloads'.mode = "Ongoing" /\ Len(downloads'.dls) = 5)

\* In Filling with a request buffered, the step the scheduler takes admits its head.
C3_FillingTakesHead ==
    (pc = "running" /\ downloads.mode = "Ongoing" /\ request_queue # <<>>
        /\ (completions' # completions \/ taken' # taken \/ pc' # pc))
    => /\ taken' = BagAdd(taken, Head(request_queue))
       /\ downloads'.dls = Append(downloads.dls,
                                  DownloadAndDecode(Head(request_queue),
                                                    TileUrl(Head(request_queue))))

\* Filling with 5 in flight and a request buffered.
C3_FillingWithBuffered ==
    /\ pc = "running"
    /\ downloads.mode = "Ongoing"
    /\ InFlight = 5
    /\ request_queue # <<>>

\* C3: when the scheduler is Saturated with a request buffered and a fetch has
\* completed, the completion is processed into Filling with 5 in flight, in
\* Filling a buffered request is what the scheduler takes next; so from
\* Saturated with a completed fetch the scheduler eventually reaches Filling
\* with 5 in flight, the request still buffered, and from there it eventually
\* admits the head of the queue, which saturates it again (the result
\* receiver stays alive in this specification).
C3_SchedulerLiveness ==
    /\ [][C3_CompletionLeavesSaturated /\ C3_FillingTakesHead]_vars
    /\ (pc = "running" /\ downloads.mode = "OngoingSaturated"
           /\ request_queue # <<>> /\ ReadyIndexes(downloads.dls) # {})
          ~> C3_FillingWithBuffered
    /\ C3_FillingWithBuffered ~> (downloads.mode = "OngoingSaturated")

\* The 7th request has been admitted after one completion, with the result
\* receiver alive.
C3_Witness ==
    /\ pc = "running"
    /\ tile_rx_alive
    /\ completions = 1
    /\ BagSize(taken) = 7
    /\ InFlight = 6

\* The step that processes a fetch which failed with error class e.
C4_FailureStep(e) == OngoingComplete(e) \/ SaturatedComplete(e)

\* What such a step does, for each error class.
C4_FailureEffect ==
    \A e \in ErrorClasses :
        C4_FailureStep(e)
        => /\ tile_queue' = tile_queue
           /\ delivered' = delivered
           /\ repaints' = repaints
           /\ warn_logs' = warn_logs + 1
           /\ pc' = "running"
           /\ error_logs' = error_logs
           /\ started' = started
           /\ downloads'.mode \in {"None", "Ongoing"}
           /\ Len(downloads'.dls) = Len(downloads.dls) - 1

\* C4: a step that processes a fetch failed with any of the three error
\* classes puts nothing on the result queue, logs one warning, keeps the loop
\* running in a mode that admits requests, and starts no fetch; fetches are
\* started only for requests taken, and a buffered request can be admitted
\* whenever the loop is in None or Ongoing.
C4_FailuresNonFatal ==
    /\ [][C4_FailureEffect]_vars
    /\ [](started = taken)
    /\ []((pc = "running" /\ downloads.mode \in {"None", "Ongoing"}
             /\ request_queue # <<>>)
          => ENABLED (NoneAdmit \/ OngoingAdmit))

\* Every fetch processed so far failed, nothing was delivered, and all 7
\* requests have been admitted since.
C4_Witness ==
    /\ pc = "running"
    /\ warn_logs >= 1
    /\ warn_logs = completions
    /\ delivered = EmptyBag
    /\ tile_queue = <<>>
    /\ BagSize(started) = 7

\* C5: once the producer is gone and the request queue is empty, the loop
\* terminates, from any mode, and the termination is logged as one error.
C5_ShutdownOnRequestClosure ==
    /\ (pc = "running" /\ ~request_tx_alive /\ request_queue = <<>>)
          ~> (pc = "terminated")
    /\ [](pc = "terminated" => error_logs = 1)

\* The loop has terminated on the closed request channel after taking every
\* request, the saturating burst included, with the result receiver alive.
C5_Witness ==
    /\ pc = "terminated"
    /\ ~request_tx_alive
    /\ tile_rx_alive
    /\ request_queue = <<>>
    /\ BagSize(taken) = 7

\* The step that processes a fetch which succeeded.
C6_OkStep == OngoingComplete("Ok") \/ SaturatedComplete("Ok")

\* Such a step with the receiver gone ends the loop and delivers nothing.
C6_SendFailureTerminates ==
    (~tile_rx_alive /\ C6_OkStep)
    => /\ pc' = "terminated"
       /\ error_logs' = error_logs + 1
       /\ delivered' = delivered
       /\ repaints' = repaints
       /\ tile_queue' = tile_queue

\* Nothing of the scheduler changes once it has terminated.
C6_TerminatedIsFinal ==
    pc = "terminated"
    => /\ pc' = "terminated"
       /\ request_queue' = request_queue
       /\ taken' = taken
       /\ started' = started
       /\ downloads' = downloads
       /\ delivered' = delivered
       /\ error_logs' = error_logs

\* C6: processing a successful fetch when the result receiver is gone sends
\* nothing, requests no repaint and terminates the loop with one error logged;
\* after termination no request is taken, no fetch is started and nothing
\* more is logged.
C6_ShutdownOnReceiverLoss ==
    /\ [][C6_SendFailureTerminates /\ C6_TerminatedIsFinal]_vars
    /\ [](error_logs <= 1)
    /\ [](pc = "terminated" <=> error_logs = 1)

\* The loop ended on a failed send while the producer was alive and a request
\* was still buffered.
C6_Witness ==
    /\ pc = "terminated"
    /\ ~tile_rx_alive
    /\ request_tx_alive
    /\ request_queue # <<>>
    /\ completions >= 1

\* One repaint in a step that puts a pair on the result queue, none otherwise.
C7_RepaintWithSend ==
    repaints' - repaints = (IF Len(tile_queue') > Len(tile_queue) THEN 1 ELSE 0)

\* C7: the number of request_repaint calls equals the number of pairs sent on
\* the result queue; a step requests a repaint exactly when it puts a pair on
\* the result queue, and then exactly one.
C7_RepaintPerDelivery ==
    /\ [](repaints = BagSize(delivered))
    /\ [](repaints + warn_logs <= completions)
    /\ [][C7_RepaintWithSend]_vars

\* A run with a delivery, a failed fetch and a failed send.
C7_Witness ==
    /\ repaints >= 1
    /\ warn_logs >= 1
    /\ pc = "terminated"
    /\ completions = repaints + warn_logs + 1

\* Number of in-flight fetches for a TileId.
InFlightCount(tile_id) ==
    Cardinality({ i \in 1..InFlight : downloads.dls[i].tile_id = tile_id })

\* TileIds sent and in flight are accounted for by the requests taken.
C8_Identity ==
    /\ \A k \in 1..Len(tile_queue) : tile_queue[k].tile_id \in DOMAIN taken
    /\ DOMAIN delivered \subseteq DOMAIN taken
    /\ \A t \in DOMAIN taken : BagCount(delivered, t) + InFlightCount(t) <= taken[t]
    /\ started = taken
    /\ pc = "running" => BagSize(taken) = InFlight + completions

\* Taking a request creates one fetch, for the TileId taken.
C8_OneFetchPerRequest ==
    taken' # taken
    => /\ request_queue # <<>>
       /\ taken' = BagAdd(taken, Head(request_queue))
       /\ downloads'.dls = Append(downloads.dls,
                                  DownloadAndDecode(Head(request_queue),
                                                    TileUrl(Head(request_queue))))

\* C8: every pair on the result queue, and every pair ever sent, carries the
\* TileId of a request taken from the request queue; per TileId the pairs
\* sent plus the fetches in flight never exceed the requests taken; and every
\* request taken starts exactly one fetch, for its own TileId.
C8_ResultIdentity ==
    /\ []C8_Identity
    /\ [][C8_OneFetchPerRequest]_vars

\* Pairs for both TileIds have been sent, one TileId more than once.
C8_Witness ==
    /\ BagSize(delivered) >= 3
    /\ Cardinality(DOMAIN delivered) = 2

----------------------------------------------------------------------------
(* Properties of Center *)

\* Position of a mode in the order MyPosition, Moving, Inertia, Exact.
ModeRank(mode) ==
    CASE mode = "MyPosition" -> 0
      [] mode = "Moving" -> 1
      [] mode = "Inertia" -> 2
      [] mode = "Exact" -> 3

\* The mode in each phase of the gesture.
C9_ModeOfGesture ==
    /\ gesture = "before" => center.mode = "MyPosition"
    /\ gesture = "dragging" => center.mode = "Moving"
    /\ gesture = "released" => center.mode \in {"Inertia", "Exact"}

\* A step keeps the mode or moves it to the next one.
C9_NextModeOnly ==
    ModeRank(center'.mode) \in {ModeRank(center.mode), ModeRank(center.mode) + 1}

\* Inertia becomes Exact exactly by a tick made with amount <= 0.
C9_ExactByTick ==
    /\ (center.mode = "Inertia" /\ center'.mode = "Exact")
          => (center.amount <= 0 /\ last_call'.op = "update_movement")
    /\ (center.mode = "Inertia" /\ center.amount <= 0
           /\ last_call'.op = "update_movement")
          => center'.mode = "Exact"

\* C9: along a drag-then-release gesture started in MyPosition the mode is
\* MyPosition before the drag, Moving during it, Inertia or Exact after the
\* frame in which it stops; every step keeps the mode or moves it to the next
\* of MyPosition, Moving, Inertia, Exact; and Inertia becomes Exact exactly by
\* an update_movement tick made with amount <= 0.
C9_TransitionOrder ==
    /\ []C9_ModeOfGesture
    /\ [][C9_NextModeOnly /\ C9_ExactByTick]_vars

\* The gesture is over and the glide has settled.
C9_Witness ==
    /\ gesture = "released"
    /\ center.mode = "Exact"
    /\ last_call.op = "update_movement"

\* A detached Center stays detached.
C10_StaysDetached ==
    center.mode # "MyPosition" => center'.mode # "MyPosition"

\* A tick on an Inertia with amount <= 0 yields Exact at the same pos.
C10_SettlesInPlace ==
    (center.mode = "Inertia" /\ center.amount <= 0 /\ last_call'.op = "update_movement")
    => center' = CenterExact(center.pos)

\* C10: no call of recalculate_drag, update_movement, shift or zero_offset, and
\* no change of amount, takes a detached Center back to MyPosition; a tick on
\* an Inertia with amount <= 0 yields Exact with the pos held before the tick.
C10_DetachmentPermanent ==
    [][C10_StaysDetached /\ C10_SettlesInPlace]_vars

\* A glide with a pending offset has settled into Exact at that position.
C10_Witness ==
    /\ center.mode = "Exact"
    /\ last_call.op = "update_movement"
    /\ center.pos.offset # ZeroVec

----------------------------------------------------------------------------
(* Properties of the projectors *)

\* The last call was the global tile_id
GlobalTileIdCalled == projection.op = "tile_id" /\ projector.kind = "Global"

\* C11: for every position and every zoom z, the TileId that
\* GlobalProjector::tile_id returns for a 256px source tile has x and y in
\* [0, 2^z), the edges of the Mercator square (longitude 180 degrees,
\* latitudes at or beyond the Mercator limit) included.
C11_TileIdGridBounds ==
    (GlobalTileIdCalled /\ projection.source_tile_size = TileSize)
    => /\ projection.ret.tag = "Some"
       /\ projection.ret.val.x \in 0 .. (Pow2(projection.zoom) - 1)
       /\ projection.ret.val.y \in 0 .. (Pow2(projection.zoom) - 1)

\* The pixel p - bitmap(anchor) + viewport.center and the difference it is
\* built from, in exact arithmetic
ExactOffset(proj, pos) ==
    VSub(pos, BitmapProjectOf(proj, Anchor(proj)))
ExactScreen(proj, pos) ==
    VAdd(ExactOffset(proj, pos), proj.clip_rect.center)

\* Both f32 operations of bitmap_to_screen(pos) are exact: neither result is
\* rounded.
ScreenIsExact(proj, pos) ==
    /\ F32Sub(pos, BitmapProjectOf(proj, Anchor(proj))) = ExactOffset(proj, pos)
    /\ F32Add(ExactOffset(proj, pos), proj.clip_rect.center) = ExactScreen(proj, pos)

\* C12 as stated: bitmap_to_screen(p) = p - bitmap(anchor) + viewport.center
\* and bitmap_from_screen(bitmap_to_screen(p)) = p for every bitmap pixel p,
\* in both strategies, and the anchor projects to the viewport's center.
C12_ExactInversePair ==
    /\ projection.op = "bitmap_to_screen"
       => projection.ret = ExactScreen(projector, projection.pos)
    /\ projection.op = "bitmap_from_screen"
       => projection.ret = projection.screen_of
    /\ (projection.op = "project" /\ projection.position = Anchor(projector))
       => projection.ret = projector.clip_rect.center

\* C12: for a fixed anchor and viewport, whenever no f32 operation of
\* bitmap_to_screen(p) is rounded, bitmap_to_screen(p) = p - bitmap(anchor) +
\* viewport.center and bitmap_from_screen(bitmap_to_screen(p)) = p, in both
\* strategies; the anchor position always projects to the viewport's center.
C12_InversePairWhenExact ==
    /\ (projection.op = "bitmap_to_screen" /\ ScreenIsExact(projector, projection.pos))
       => projection.ret = ExactScreen(projector, projection.pos)
    /\ (projection.op = "bitmap_from_screen"
        /\ ScreenIsExact(projector, projection.screen_of))
       => /\ projection.pos = ExactScreen(projector, projection.screen_of)
          /\ projection.ret = projection.screen_of
    /\ (projection.op = "project" /\ projection.position = Anchor(projector))
       => projection.ret = projector.clip_rect.center

\* A pixel away from the anchor went to the screen and back without rounding,
\* on a detached map whose center is not my_position.
C12_Witness ==
    /\ projection.op = "bitmap_from_screen"
    /\ ScreenIsExact(projector, projection.screen_of)
    /\ projection.screen_of # BitmapProjectOf(projector, Anchor(projector))
    /\ projection.pos # projection.screen_of
    /\ Anchor(projector) # projector.my_position

----------------------------------------------------------------------------
(* Properties of the scheduler: the in-flight set *)

\* C13: in every state of the running loop the mode matches the in-flight
\* count: None holds 0 fetches, Ongoing between 1 and 5, OngoingSaturated
\* exactly 6; so select_all is never given an empty set.
C13_ModeMatchesInFlight ==
    pc = "running" =>
        /\ downloads.mode \in {"None", "Ongoing", "OngoingSaturated"}
        /\ downloads.mode = "None" => InFlight = 0
        /\ downloads.mode = "Ongoing" => InFlight \in 1 .. (MaxConcurrent - 1)
        /\ downloads.mode = "OngoingSaturated" => InFlight = MaxConcurrent

\* A completion took the scheduler from OngoingSaturated back to Ongoing with
\* 5 in flight, and later completions emptied the set: None after 6 fetches.
C13_Witness ==
    /\ pc = "running"
    /\ downloads.mode = "None"
    /\ BagSize(started) >= MaxConcurrent
    /\ completions = BagSize(started)

\* Number of futures for a TileId held in a list of in-flight futures.
HeldCount(dls, tile_id) ==
    Cardinality({ i \in 1..Len(dls) : dls[i].tile_id = tile_id })

\* Every fetch started and not yet reported complete is in flight.
C14_StartedIsInFlightPlusCompleted ==
    pc = "running" => BagSize(started) = InFlight + completions

\* Admitting a request adds the new fetch and nothing else.
C14_AdmitKeepsOthers ==
    started' # started =>
        \A t \in TileIds :
            HeldCount(downloads'.dls, t) =
                HeldCount(downloads.dls, t) + (IF t = Head(request_queue) THEN 1 ELSE 0)

\* Processing a completion removes one completed fetch and nothing else.
C14_CompleteKeepsOthers ==
    (completions' # completions /\ pc' = "running") =>
        \E i \in ReadyIndexes(downloads.dls) :
            \A t \in TileIds :
                HeldCount(downloads'.dls, t) =
                    HeldCount(downloads.dls, t)
                    - (IF t = downloads.dls[i].tile_id THEN 1 ELSE 0)

\* No other step of the running loop or of its environment touches the set.
C14_OthersKeepAll ==
    (started' = started /\ completions' = completions /\ pc' = "running") =>
        \A t \in TileIds : HeldCount(downloads'.dls, t) = HeldCount(downloads.dls, t)

\* C14: while the loop runs, every fetch started and not yet reported complete
\* is held exactly once in the in-flight set: started = in-flight + processed
\* completions, an admission adds only the new fetch and a completion removes
\* only the completed one.
C14_InFlightConservation ==
    /\ [](C14_StartedIsInFlightPlusCompleted)
    /\ [][C14_AdmitKeepsOthers /\ C14_CompleteKeepsOthers /\ C14_OthersKeepAll]_vars

\* A completion has been processed while fetches for both TileIds stay in
\* flight, and more fetches were admitted after it.
C14_Witness ==
    /\ pc = "running"
    /\ completions >= 1
    /\ InFlight >= 3
    /\ \A t \in TileIds : HeldCount(downloads.dls, t) >= 1
    /\ BagSize(started) > MaxConcurrent

----------------------------------------------------------------------------
(* Properties of Center: the single operations *)

\* C15: from every reachable Center, a frame in which the primary button is
\* dragging sets Center to Moving with this frame's drag delta as direction and
\* with the pos held before (offset included) when the mode was Exact, Moving
\* or Inertia, or the live my_position with zero offset when it was
\* MyPosition; this holds also when the frame reports the drag as stopped.
C15_DragStep ==
    \A drag_stopped \in BOOLEAN, drag_delta \in Deltas, my_position \in MyPositions :
        RecalculateDragCenter(center, TRUE, drag_stopped, drag_delta, my_position)
        = [mode |-> "Moving",
           pos |-> IF center.mode = "MyPosition"
                   THEN [position |-> my_position, offset |-> ZeroVec]
                   ELSE center.pos,
           direction |-> drag_delta]

\* A drag has taken over a detached Center with a pending offset.
C15_Witness ==
    /\ center.mode = "Moving"
    /\ last_call = Call("recalculate_drag", TRUE)
    /\ center.pos.offset # ZeroVec
    /\ center.pos.position \notin MyPositions

\* A frame whose drag has stopped, with no drag in progress, on any
\* reachable Center
C16_DragEndStep ==
    \A drag_delta \in Deltas, my_position \in MyPositions :
        RecalculateDragCenter(center, FALSE, TRUE, drag_delta, my_position)
        = IF center.mode = "Moving"
          THEN [mode |-> "Inertia", pos |-> center.pos,
                direction |-> center.direction, amount |-> 1]
          ELSE center

\* Inertia is entered from Moving by a stopped drag only
C16_InertiaOnlyFromMoving ==
    (center.mode # "Inertia" /\ center'.mode = "Inertia")
    => /\ center.mode = "Moving"
       /\ last_call' = Call("recalculate_drag", TRUE)
       /\ center' = [mode |-> "Inertia", pos |-> center.pos,
                     direction |-> center.direction, amount |-> 1]

\* C16: in a frame where the drag has stopped and no drag is in progress,
\* Moving{pos, direction} becomes Inertia{pos, direction, amount: 1.0} and
\* MyPosition, Exact and Inertia are left unchanged; Inertia is entered in no
\* other way.
C16_DragEnd ==
    /\ [](C16_DragEndStep)
    /\ [][C16_InertiaOnlyFromMoving]_vars

\* A stopped drag has left a glide under way untouched, its amount lowered
\* before.
C16_Witness ==
    /\ center.mode = "Inertia"
    /\ last_call = Call("recalculate_drag", TRUE)
    /\ center.amount # 1

\* A tick on Inertia
C17_TickOnInertia ==
    (center.mode = "Inertia" /\ last_call'.op = "update_movement")
    => center' = IF center.amount <= 0
                 THEN [mode |-> "Exact", pos |-> center.pos]
                 ELSE [center EXCEPT
                          !.pos = PosShift(center.pos,
                                           VMul(center.direction, center.amount))]

\* A glide ends in Exact only by a tick that finds amount <= 0
C17_ExactOnlyAfterDecay ==
    (center.mode = "Inertia" /\ center'.mode = "Exact")
    => center.amount <= 0 /\ last_call'.op = "update_movement"

\* C17: update_movement on Inertia{pos, direction, amount} yields Exact{pos}
\* with pos not advanced if amount <= 0, and otherwise Inertia with pos shifted
\* by direction * amount and direction and amount unchanged; the glide reaches
\* Exact only once amount is 0 or below.
C17_InertiaTick ==
    [][C17_TickOnInertia /\ C17_ExactOnlyAfterDecay]_vars

\* A glide with amount 2 has been advanced by a tick.
C17_Witness ==
    /\ center.mode = "Inertia"
    /\ last_call.op = "update_movement"
    /\ center.amount = 2
    /\ center.pos.offset # ZeroVec

\* C18: update_movement on MyPosition or Exact returns false and leaves the
\* Center unchanged, tick after tick; it returns true exactly when the mode
\* before the call was Moving or Inertia.
C18_TickLeavesPinned ==
    [][last_call'.op = "update_movement"
       => /\ last_call'.ret = (center.mode \in {"Moving", "Inertia"})
          /\ center.mode \in {"MyPosition", "Exact"} => center' = center]_vars

\* A tick found the Center pinned at a position with a pending offset.
C18_Witness ==
    /\ center.mode = "Exact"
    /\ last_call = Call("update_movement", FALSE)
    /\ center.pos.offset # ZeroVec

\* shift(offset) keeps the variant and replaces the pos by the shifted one
C19_ShiftStep ==
    last_call'.op = "shift"
    => IF center.mode = "MyPosition"
       THEN center' = [mode |-> "MyPosition"]
       ELSE \E offset \in Deltas :
               center' = [center EXCEPT !.pos = PosShift(center.pos, offset)]

\* zero_offset keeps the variant and replaces the pos by the one the projector
\* returns, its offset folded into the position
C19_ZeroOffsetStep ==
    last_call'.op = "zero_offset"
    => IF center.mode = "MyPosition"
       THEN center' = [mode |-> "MyPosition"]
       ELSE center' = [center EXCEPT !.pos = ProjectorZeroOffset(center.pos)]

\* C19: shift and zero_offset return MyPosition for MyPosition, and for Exact,
\* Moving and Inertia the same variant with only the held AdjustedPosition
\* replaced (shifted by the pixel offset, or with its offset folded to zero),
\* direction and amount unchanged.
C19_ModePreserved ==
    [][C19_ShiftStep /\ C19_ZeroOffsetStep]_vars

\* A glide has been shifted and is still a glide.
C19_Witness ==
    /\ center.mode = "Inertia"
    /\ last_call.op = "shift"
    /\ center.pos.offset # ZeroVec

----------------------------------------------------------------------------
(* Properties of the projectors: the zoom of a TileId *)

\* The k of a source tile size 256 * 2^k
SizeExp(source_tile_size) ==
    CHOOSE k \in 0..MaxSizeExp : source_tile_size = TileSize * Pow2(k)

\* The position lies inside the Mercator square, off its far edges.
InsideSquare(pos) ==
    /\ pos[1] \in (0 - HalfDen) .. (HalfDen - 1)
    /\ pos[2] \in (1 - HalfDen) .. HalfDen

\* C20: for every requested zoom and every source tile size 256 * 2^k, the
\* TileId of GlobalProjector::tile_id has zoom = requested zoom - k, a value in
\* [0, requested zoom], and x and y are indices of the 2^(zoom - k) by
\* 2^(zoom - k) grid (stated here for positions inside the square).
C20_ZoomAdjustment ==
    (GlobalTileIdCalled /\ InsideSquare(projection.pos))
    => LET k == SizeExp(projection.source_tile_size)
       IN /\ projection.ret.tag = "Some"
          /\ projection.ret.val.zoom = projection.zoom - k
          /\ projection.ret.val.zoom \in 0 .. projection.zoom
          /\ projection.ret.val.x \in 0 .. (Pow2(projection.zoom - k) - 1)
          /\ projection.ret.val.y \in 0 .. (Pow2(projection.zoom - k) - 1)

----------------------------------------------------------------------------
(* Properties of the scheduler: completions under request pressure *)

\* A request is admitted only below the limit; the admission adds one fetch
\* to the in-flight set and processes no completion.
C21_AdmissionFillsOneSlot ==
    (pc = "running" /\ started' # started)
    => /\ InFlight < MaxConcurrent
       /\ pc' = "running"
       /\ Len(downloads'.dls) = InFlight + 1
       /\ completions' = completions

\* While the loop runs, only a processed completion takes a fetch out of the
\* in-flight set.
C21_OnlyCompletionFrees ==
    (pc = "running" /\ pc' = "running" /\ completions' = completions)
    => Len(downloads'.dls) >= InFlight

\* With MaxConcurrent fetches in flight the loop is in OngoingSaturated, where
\* a buffered request is not admitted: every step of the scheduler processes
\* a completion.
C21_SaturatedWaitsForCompletion ==
    /\ (pc = "running" /\ InFlight = MaxConcurrent)
       => downloads.mode = "OngoingSaturated"
    /\ (pc = "running" /\ downloads.mode = "OngoingSaturated")
       => ~ENABLED (NoneAdmit \/ OngoingAdmit \/ NoneClosed \/ OngoingClosed)

\* A completed fetch is waiting while the loop runs and b is the parity of the
\* number of completions processed so far.
C21_CompletedWaiting(b) ==
    /\ pc = "running"
    /\ ReadyIndexes(downloads.dls) # {}
    /\ completions % 2 = b

----------------------------------------------------------------------------
(* Properties of the scheduler: shutdown with fetches in flight *)

\* The loop is in Ongoing with at least one fetch in flight and request.await
\* yields None: the queue is empty and its sender is gone.
C22_ClosedInFilling ==
    /\ pc = "running"
    /\ downloads.mode = "Ongoing"
    /\ InFlight >= 1
    /\ request_queue = <<>>
    /\ ~request_tx_alive

\* In that state the only step the loop can take is the return: no completion
\* is processed first, whether a fetch has completed or not.
C22_ReturnIsTheOnlyStep ==
    C22_ClosedInFilling
    => /\ ENABLED OngoingClosed
       /\ ~ENABLED OngoingAdmit
       /\ \A outcome \in Outcomes : ~ENABLED OngoingComplete(outcome)

\* The step of the loop from that state terminates it with one error logged
\* and drops the in-flight set; nothing is sent, no repaint is requested and
\* no completion is processed.
C22_ClosureStep ==
    (C22_ClosedInFilling /\ SchedulerStep)
    => /\ pc' = "terminated"
       /\ error_logs' = error_logs + 1
       /\ downloads' = DownloadsDropped
       /\ completions' = completions
       /\ tile_queue' = tile_queue
       /\ delivered' = delivered
       /\ repaints' = repaints
       /\ warn_logs' = warn_logs

\* After termination no fetch is held, none is processed or delivered, the
\* result queue only drains, and no repaint is requested.
C22_NothingAfterwards ==
    pc = "terminated"
    => /\ downloads = DownloadsDropped
       /\ completions' = completions
       /\ delivered' = delivered
       /\ repaints' = repaints
       /\ Len(tile_queue') <= Len(tile_queue)

\* C22: when the loop, in Ongoing with k >= 1 fetches in flight, finds the
\* request queue closed, it terminates at once; none of the k fetches is
\* delivered on the result queue afterwards, not even one that had already
\* completed, and no repaint is requested for them.
C22_ShutdownDiscardsInFlight ==
    /\ []C22_ReturnIsTheOnlyStep
    /\ [][C22_ClosureStep /\ C22_NothingAfterwards]_vars

\* The loop has terminated on request closure (the result receiver is still
\* alive, so no send failed) while fetches that it had started were never
\* processed.
C22_Witness ==
    /\ pc = "terminated"
    /\ ~request_tx_alive
    /\ tile_rx_alive
    /\ error_logs = 1
    /\ downloads = DownloadsDropped
    /\ BagSize(started) > completions
====
